---- MODULE Spec2Model ----
(***************************************************************************)
(* PDFParser (src/pdf_parser.py) and its two front ends, the CLI main      *)
(* (src/cli.py, also started through src/main.py) and the GUI, the main   *)
(* window and its WorkerThread.run (src/gui.py), over a model of the file  *)
(* system: a set of directories and a map from file paths to               *)
(* file contents.  The third-party engines (ocrmypdf, pdfminer, PyMuPDF,   *)
(* GraphicsMagick, tabula, pandas, unstructured) are functions of the      *)
(* content of the file they are handed, plus a fault the environment       *)
(* chooses at every call.                                                  *)
(***************************************************************************)
EXTENDS Integers, Sequences, FiniteSets, TLC

\* Bounds of the model.
MaxPages == 2      \* pages of the source document
MaxImgs == 2       \* embedded images in the source document, over all pages
MaxTables == 2     \* tables the detector reports
NumSessions == 2   \* PDFParser objects constructed in one behaviour
MaxCalls == 3      \* method calls made on the constructed objects
MaxRuns == 2       \* worker threads the main window starts

VARIABLES
    dirs,       \* file system: the directories that exist (paths)
    files,      \* file system: path -> content, for the files that exist
    made,       \* names tempfile.mkdtemp has handed out so far
    sessions,   \* the PDFParser objects constructed, in construction order
    last,       \* the outcome of the most recent constructor or method call
    calls,      \* number of method calls made so far
    run         \* one run of a front end: its arguments, position and outputs

vars == <<dirs, files, made, sessions, last, calls, run>>

----------------------------------------------------------------------------
\* Paths are sequences of components.  An input path keeps its directory,
\* stem and suffix apart so that pathlib's .name and .stem can be computed.

PathName(p) == p.stem \o p.suffix
PathStem(p) == p.stem
FsPath(p) == Append(p.dir, PathName(p))
Join(d, name) == Append(d, name)

IsUnder(p, d) ==
    /\ Len(p) > Len(d)
    /\ SubSeq(p, 1, Len(d)) = d

Parent(p) == SubSeq(p, 1, Len(p) - 1)

\* Path.exists()
Exists(ds, fs, p) == p \in ds \/ p \in DOMAIN fs

\* open(p, "w") / a library writing its output file: the parent must exist.
CanCreate(ds, p) == Parent(p) \in ds

WriteFile(fs, p, c) == [q \in DOMAIN fs \cup {p} |-> IF q = p THEN c ELSE fs[q]]

SrcInput == [dir |-> <<"in">>, stem |-> "doc", suffix |-> ".pdf"]
MissingInput == [dir |-> <<"in">>, stem |-> "nofile", suffix |-> ".pdf"]
Inputs == {SrcInput, MissingInput}

\* Source documents: a text layer or none (a scan), the number of
\* embedded images on each page, and the number of tables on its pages.
RECURSIVE Sum(_)
Sum(q) == IF q = <<>> THEN 0 ELSE Head(q) + Sum(Tail(q))

PageLayouts ==
    {l \in UNION {[1..n -> 0..MaxImgs] : n \in 0..MaxPages} : Sum(l) <= MaxImgs}
AllDocs == [kind : {"pdf"}, text : {"", "T"}, pages : PageLayouts,
            tables : 0..MaxTables, ocred : {FALSE}]

\* The document generate_sample_pdf writes: Chinese and English text, two
\* tables and one generated image, which falls on the second page.
SampleDoc == [kind |-> "pdf", text |-> "T", pages |-> <<0, 1>>, tables |-> 2,
              ocred |-> FALSE]

\* The documents of the model: the sample, and every document that differs
\* from it in one respect: no text layer (a scan), other images, other tables.
Docs ==
    {d \in AllDocs :
        \/ d.pages = SampleDoc.pages /\ d.tables = SampleDoc.tables
        \/ d.text = SampleDoc.text /\ d.tables = SampleDoc.tables
        \/ d.text = SampleDoc.text /\ d.pages = SampleDoc.pages}

\* The arguments of a run: the CLI's flags after parse_args, or the options
\* dictionary start_processing hands to the worker thread.
Flags == [ocr : BOOLEAN, extract_text : BOOLEAN, extract_images : BOOLEAN,
          extract_tables : BOOLEAN, extract_all : BOOLEAN,
          extract_structured : BOOLEAN, keep_temp : BOOLEAN]

\* self.pdf_path = None
NonePath == [dir |-> <<>>, stem |-> "", suffix |-> ""]

\* The main window as PDFParserGUI.__init__ and init_ui leave it: no path
\* chosen, the browse buttons enabled, the process button and the button
\* that opens the output directory disabled.  `handled` counts the signals
\* of the worker thread the window's slots have run for, `started` the
\* worker threads started.
InitWindow ==
    [pdf_path |-> NonePath, output_dir |-> <<>>,
     process_btn |-> FALSE, browse_pdf_btn |-> TRUE, browse_output_btn |-> TRUE,
     open_output_btn |-> FALSE, progress_bar |-> 0, tabs |-> "empty",
     dialog |-> "none", handled |-> 0, started |-> 0]

NoRun == [frontend |-> "none", input |-> MissingInput, window |-> InitWindow,
          args |-> [ocr |-> FALSE, extract_text |-> FALSE, extract_images |-> FALSE,
                    extract_tables |-> FALSE, extract_all |-> FALSE,
                    extract_structured |-> FALSE, keep_temp |-> FALSE],
          given |-> [ocr |-> FALSE, extract_text |-> FALSE, extract_images |-> FALSE,
                     extract_tables |-> FALSE, extract_all |-> FALSE,
                     extract_structured |-> FALSE, keep_temp |-> FALSE],
          pc |-> "none", invoked |-> <<>>, degraded |-> {},
          escaped |-> "", events |-> <<>>, code |-> -1,
          via |-> "none", status |-> -1]

NoResult == [sid |-> 0, op |-> "none", raised |-> "", none |-> FALSE,
             path |-> <<>>, text |-> "", elements |-> <<>>, log |-> "",
             read |-> <<>>, warnings |-> 0,
             env |-> [kind |-> "none", at |-> 0, opt |-> {}]]

Result(sid, op) == [NoResult EXCEPT !.sid = sid, !.op = op]

----------------------------------------------------------------------------
\* PDFParser.__init__

\* tempfile.mkdtemp(): a new directory under the system temp directory, of a
\* name it has not handed out before.
TmpName(used) == "tmp" \o ToString(Cardinality(used) + 1)

\* (a slip: one scratch directory of a fixed name for every object)
MkdtempFixed(name) == <<"tmp", "pdf_parser">>

Mkdtemp(name) == <<"tmp", name>>

\* (a slip: the constructor does not look whether the file is there)
InitOkUnchecked(ds, fs, p) == TRUE

\* `if not self.pdf_path.exists(): raise FileNotFoundError`
InitOk(ds, fs, p) == Exists(ds, fs, FsPath(p))

\* (a slip: the OCR copy put beside the source, pdf_path.parent for temp_dir)
NewSessionBesideSource(p, name) ==
    [pdf_path |-> p,
     temp_dir |-> Mkdtemp(name),
     ocr_path |-> Join(p.dir, "ocr_" \o PathName(p))]

NewSession(p, name) ==
    [pdf_path |-> p,
     temp_dir |-> Mkdtemp(name),
     ocr_path |-> Join(Mkdtemp(name), "ocr_" \o PathName(p))]

Construct(p) ==
    /\ Len(sessions) < NumSessions
    /\ IF ~InitOk(dirs, files, p)
       THEN /\ last' = [Result(Len(sessions) + 1, "init") EXCEPT
                            !.raised = "FileNotFoundError"]
            /\ UNCHANGED <<dirs, files, made, sessions, calls, run>>
       ELSE LET name == TmpName(made) IN
            /\ made' = made \cup {name}
            /\ dirs' = dirs \cup {Mkdtemp(name)}
            /\ sessions' = Append(sessions, NewSession(p, name))
            /\ last' = [Result(Len(sessions) + 1, "init") EXCEPT
                            !.path = Mkdtemp(name)]
            /\ UNCHANGED <<files, calls, run>>

----------------------------------------------------------------------------
\* The engines, as functions of the content of the PDF they are handed.

\* ocrmypdf with skip_text=True: a page that has text is left as it is.
OcrOf(c) == [c EXCEPT !.text = IF @ = "" THEN "R" ELSE @, !.ocred = TRUE]

\* pdfminer extract_text: the text layer.
TextOf(c) == c.text

\* tabula.read_pdf: tables are found in the text layer only.
TablesOf(c) == IF c.text = "" THEN 0 ELSE c.tables

\* unstructured partition_pdf, strategy "fast": elements of the text layer.
ElementsOf(c) == IF c.text = "" THEN <<>> ELSE <<"Title", "NarrativeText">>

\* PyMuPDF: (page_num, img_index) of every embedded image, 0-based, in the
\* order of the two loops of extract_images.
RECURSIVE PageImages(_, _, _)
PageImages(pages, page_num, img_index) ==
    IF page_num >= Len(pages) THEN <<>>
    ELSE IF img_index >= pages[page_num + 1]
         THEN PageImages(pages, page_num + 1, 0)
         ELSE <<[page_num |-> page_num, img_index |-> img_index]>>
              \o PageImages(pages, page_num, img_index + 1)

ImagesOf(c) == PageImages(c.pages, 0, 0)

\* base_image["ext"]: the format the image is stored in.
ImageExt(img) == IF (img.page_num + img.img_index) % 2 = 0 THEN "png" ELSE "jpeg"

----------------------------------------------------------------------------
\* PDFParser.perform_ocr

\* (a slip: the except clause raises again)
OcrFailedRaises(s, sid) ==
    [Result(sid, "ocr") EXCEPT !.raised = "Exception",
         !.read = FsPath(s.pdf_path), !.log = "error"]

\* (a slip: the except clause returns the path of the output all the same)
OcrFailedOcrPath(s, sid) ==
    [Result(sid, "ocr") EXCEPT !.path = s.ocr_path,
         !.read = FsPath(s.pdf_path), !.log = "error"]

\* (a slip: the except clause returns None, as the other methods do)
OcrFailedNone(s, sid) ==
    [Result(sid, "ocr") EXCEPT !.none = TRUE,
         !.read = FsPath(s.pdf_path), !.log = "error"]

\* The except clause of perform_ocr: log, return str(self.pdf_path).
OcrFailed(s, sid) ==
    [Result(sid, "ocr") EXCEPT !.path = FsPath(s.pdf_path),
         !.read = FsPath(s.pdf_path), !.log = "error"]

PerformOcr(ds, fs, s, sid, fault) ==
    LET src == FsPath(s.pdf_path)
        ok == /\ ~fault
              /\ src \in DOMAIN fs
              /\ CanCreate(ds, s.ocr_path)
    IN  IF ok
        THEN [dirs |-> ds,
              files |-> WriteFile(fs, s.ocr_path, OcrOf(fs[src])),
              ret |-> [Result(sid, "ocr") EXCEPT !.path = s.ocr_path,
                           !.read = src, !.log = "info"]]
        ELSE [dirs |-> ds, files |-> fs, ret |-> OcrFailed(s, sid)]

\* (a slip: the OCR copy is read once there is one)
TextInputOcr(fs, s) ==
    IF s.ocr_path \in DOMAIN fs THEN s.ocr_path ELSE FsPath(s.pdf_path)

\* The file extract_text_with_pdfminer hands to pdfminer: self.pdf_path.
TextInput(fs, s) == FsPath(s.pdf_path)

\* PDFParser.extract_text_with_pdfminer
ExtractText(ds, fs, s, sid, fault) ==
    LET src == TextInput(fs, s)
    IN  IF ~fault /\ src \in DOMAIN fs
        THEN [dirs |-> ds, files |-> fs,
              ret |-> [Result(sid, "text") EXCEPT !.text = TextOf(fs[src]),
                           !.read = src, !.log = "info"]]
        ELSE [dirs |-> ds, files |-> fs,
              ret |-> [Result(sid, "text") EXCEPT !.read = src, !.log = "error"]]

\* (a slip: no try/except around the gm call)
OptimizeImageRaises(fs, image_path, fails) ==
    IF fails
    THEN [files |-> fs, raised |-> "CalledProcessError", warned |-> FALSE]
    ELSE [files |-> WriteFile(fs, image_path, [kind |-> "image", data |-> "opt"]),
          raised |-> "", warned |-> FALSE]

\* PDFParser._optimize_image: gm convert rewrites the file in place; a failure
\* is logged as a warning and the file stays as it was written.
OptimizeImage(fs, image_path, fails) ==
    IF fails
    THEN [files |-> fs, raised |-> "", warned |-> TRUE]
    ELSE [files |-> WriteFile(fs, image_path, [kind |-> "image", data |-> "opt"]),
          raised |-> "", warned |-> FALSE]

ImageFilename(images_dir, img) ==
    Join(images_dir, "image_p" \o ToString(img.page_num + 1) \o "_"
                     \o ToString(img.img_index + 1) \o "." \o ImageExt(img))

\* The two nested loops of extract_images over the images of the document,
\* from the i-th image on.  fault.kind "read" is doc.extract_image raising at
\* image fault.at, "write" is the write of its file raising.
\* (a slip: the try block inside the loop, a failing image only skipped)
RECURSIVE ImageLoopSkips(_, _, _, _, _)
ImageLoopSkips(fs, images_dir, imgs, i, fault) ==
    IF i > Len(imgs)
    THEN [files |-> fs, aborted |-> FALSE, warnings |-> 0]
    ELSE IF fault.kind \in {"read", "write"} /\ fault.at = i
    THEN ImageLoopSkips(fs, images_dir, imgs, i + 1, fault)
    ELSE LET name == ImageFilename(images_dir, imgs[i])
             o == OptimizeImage(
                      WriteFile(fs, name, [kind |-> "image", data |-> "raw"]),
                      name, i \in fault.opt)
             r == ImageLoopSkips(o.files, images_dir, imgs, i + 1, fault)
         IN  [r EXCEPT !.warnings = @ + (IF o.warned THEN 1 ELSE 0)]

RECURSIVE ImageLoop(_, _, _, _, _)
ImageLoop(fs, images_dir, imgs, i, fault) ==
    IF i > Len(imgs)
    THEN [files |-> fs, aborted |-> FALSE, warnings |-> 0]
    ELSE LET name == ImageFilename(images_dir, imgs[i])
         IN  IF fault.kind = "read" /\ fault.at = i
             THEN [files |-> fs, aborted |-> TRUE, warnings |-> 0]
             ELSE IF fault.kind = "write" /\ fault.at = i
             THEN [files |-> WriteFile(fs, name, [kind |-> "image", data |-> "partial"]),
                   aborted |-> TRUE, warnings |-> 0]
             ELSE LET o == OptimizeImage(
                               WriteFile(fs, name, [kind |-> "image", data |-> "raw"]),
                               name, i \in fault.opt)
                  IN  IF o.raised # ""
                      THEN [files |-> o.files, aborted |-> TRUE,
                            warnings |-> 0]
                      ELSE LET r == ImageLoop(o.files, images_dir, imgs, i + 1, fault)
                           IN  [r EXCEPT !.warnings = @ + (IF o.warned THEN 1 ELSE 0)]

\* images_dir.mkdir(exist_ok=True), which is not inside the try block: the
\* parent must exist, and the call may fail for a reason of its own.
MkdirOk(ds, d, fault) == Parent(d) \in ds /\ fault.kind # "mkdir"

\* PDFParser.extract_images
ExtractImages(ds, fs, s, sid, fault) ==
    LET src == FsPath(s.pdf_path)
        images_dir == Join(s.temp_dir, "images")
    IN  IF ~MkdirOk(ds, images_dir, fault)
        THEN [dirs |-> ds, files |-> fs,
              ret |-> [Result(sid, "images") EXCEPT
                           !.raised = IF Parent(images_dir) \in ds
                                      THEN "OSError" ELSE "FileNotFoundError"]]
        ELSE IF fault.kind = "open" \/ src \notin DOMAIN fs
        THEN [dirs |-> ds \cup {images_dir}, files |-> fs,
              ret |-> [Result(sid, "images") EXCEPT !.none = TRUE,
                           !.read = src, !.log = "error"]]
        ELSE LET r == ImageLoop(fs, images_dir, ImagesOf(fs[src]), 1, fault)
             IN  [dirs |-> ds \cup {images_dir}, files |-> r.files,
                  ret |-> IF r.aborted
                          THEN [Result(sid, "images") EXCEPT !.none = TRUE,
                                    !.read = src, !.log = "error",
                                    !.warnings = r.warnings]
                          ELSE [Result(sid, "images") EXCEPT !.path = images_dir,
                                    !.read = src, !.log = "info",
                                    !.warnings = r.warnings]]

\* The optimisation fails for no image, for one image, or for every image.
OptFaults(k) == {{}} \cup {{j} : j \in 1..k} \cup {1..k}

\* What the environment does to one call of extract_images on a document of
\* k images: the fault, and the images whose optimisation fails among those
\* the loop gets to.
ImageFaults(k) ==
    {[kind |-> x, at |-> 0, opt |-> {}] : x \in {"mkdir", "open"}}
    \cup {[kind |-> "none", at |-> 0, opt |-> o] : o \in OptFaults(k)}
    \cup UNION {{[kind |-> x, at |-> j, opt |-> o] :
                    x \in {"read", "write"}, o \in OptFaults(j - 1)} : j \in 1..k}

NumImages(fs, s) ==
    IF FsPath(s.pdf_path) \in DOMAIN fs THEN Len(ImagesOf(fs[FsPath(s.pdf_path)])) ELSE 0

----------------------------------------------------------------------------
\* PDFParser.extract_tables

SheetName(i) == "Table_" \o ToString(i)

\* (a slip: the workbook is written whatever the list holds)
NonEmptyAlways(n) == TRUE

\* `if tables:` on the list of n tables tabula returns.
NonEmpty(n) == n # 0

ExcelPath(s) == Join(s.temp_dir, "tables_" \o PathStem(s.pdf_path) \o ".xlsx")

\* fault.kind "detect" is tabula.read_pdf raising; "write" is table.to_excel
\* raising at sheet fault.at: the writer is closed on the way out of the with
\* block and saves the sheets written before, if there is one.
ExtractTables(ds, fs, s, sid, fault) ==
    LET src == FsPath(s.pdf_path)
        excel_path == ExcelPath(s)
        failed == [dirs |-> ds, files |-> fs,
                   ret |-> [Result(sid, "tables") EXCEPT !.none = TRUE,
                                !.read = src, !.log = "error"]]
    IN  IF fault.kind = "detect" \/ src \notin DOMAIN fs
        THEN failed
        ELSE LET n == TablesOf(fs[src])
             IN  IF ~NonEmpty(n)
                 THEN [dirs |-> ds, files |-> fs,
                       ret |-> [Result(sid, "tables") EXCEPT !.none = TRUE,
                                    !.read = src]]
                 ELSE IF ~CanCreate(ds, excel_path)
                 THEN failed
                 ELSE IF fault.kind = "write" /\ fault.at <= n
                 THEN IF fault.at = 1
                      THEN failed
                      ELSE [failed EXCEPT !.files =
                                WriteFile(fs, excel_path,
                                    [kind |-> "xlsx",
                                     sheets |-> [i \in 1..(fault.at - 1) |-> SheetName(i)]])]
                 ELSE [dirs |-> ds,
                       files |-> WriteFile(fs, excel_path,
                                    [kind |-> "xlsx",
                                     sheets |-> [i \in 1..n |-> SheetName(i)]]),
                       ret |-> [Result(sid, "tables") EXCEPT !.path = excel_path,
                                    !.read = src, !.log = "info"]]

TableFaults(n) ==
    {[kind |-> x, at |-> 0, opt |-> {}] : x \in {"none", "detect"}}
    \cup {[kind |-> "write", at |-> j, opt |-> {}] : j \in 1..n}

NumTables(fs, s) ==
    IF FsPath(s.pdf_path) \in DOMAIN fs THEN TablesOf(fs[FsPath(s.pdf_path)]) ELSE 0

\* PDFParser.extract_structured_content
ExtractStructured(ds, fs, s, sid, fault) ==
    LET src == FsPath(s.pdf_path)
    IN  IF ~fault /\ src \in DOMAIN fs
        THEN [dirs |-> ds, files |-> fs,
              ret |-> [Result(sid, "structured") EXCEPT
                           !.elements = ElementsOf(fs[src]), !.read = src]]
        ELSE [dirs |-> ds, files |-> fs,
              ret |-> [Result(sid, "structured") EXCEPT !.read = src,
                           !.log = "error"]]

\* PDFParser.cleanup: shutil.rmtree(self.temp_dir) inside try/except.
Rmtree(ds, fs, d) ==
    [dirs |-> {x \in ds : x # d /\ ~IsUnder(x, d)},
     files |-> [q \in {x \in DOMAIN fs : ~IsUnder(x, d)} |-> fs[q]]]

\* (a slip: rmtree outside the try block)
CleanupUnguarded(ds, fs, s, sid, fault) ==
    IF ~fault /\ s.temp_dir \in ds
    THEN [dirs |-> Rmtree(ds, fs, s.temp_dir).dirs,
          files |-> Rmtree(ds, fs, s.temp_dir).files,
          ret |-> [Result(sid, "cleanup") EXCEPT !.none = TRUE, !.log = "info"]]
    ELSE [dirs |-> ds, files |-> fs,
          ret |-> [Result(sid, "cleanup") EXCEPT !.raised = "FileNotFoundError"]]

Cleanup(ds, fs, s, sid, fault) ==
    IF ~fault /\ s.temp_dir \in ds
    THEN [dirs |-> Rmtree(ds, fs, s.temp_dir).dirs,
          files |-> Rmtree(ds, fs, s.temp_dir).files,
          ret |-> [Result(sid, "cleanup") EXCEPT !.none = TRUE, !.log = "info"]]
    ELSE [dirs |-> ds, files |-> fs,
          ret |-> [Result(sid, "cleanup") EXCEPT !.none = TRUE, !.log = "error"]]

----------------------------------------------------------------------------
\* A client of the class calls the methods of the objects it has constructed,
\* in any order.

\* What the environment did to a call, kept with the outcome of the call.
Env(fault) == [kind |-> IF fault THEN "fault" ELSE "none", at |-> 0, opt |-> {}]
WithEnv(ret, env) == [ret EXCEPT !.env = env]

Apply(o, env) ==
    /\ dirs' = o.dirs
    /\ files' = o.files
    /\ last' = WithEnv(o.ret, env)
    /\ calls' = calls + 1
    /\ UNCHANGED <<made, sessions, run>>

CallPerformOcr(sid) ==
    /\ calls < MaxCalls
    /\ \E fault \in BOOLEAN :
           Apply(PerformOcr(dirs, files, sessions[sid], sid, fault), Env(fault))

CallExtractText(sid) ==
    /\ calls < MaxCalls
    /\ \E fault \in BOOLEAN :
           Apply(ExtractText(dirs, files, sessions[sid], sid, fault), Env(fault))

CallExtractImages(sid) ==
    /\ calls < MaxCalls
    /\ \E fault \in ImageFaults(NumImages(files, sessions[sid])) :
           Apply(ExtractImages(dirs, files, sessions[sid], sid, fault), fault)

CallExtractTables(sid) ==
    /\ calls < MaxCalls
    /\ \E fault \in TableFaults(NumTables(files, sessions[sid])) :
           Apply(ExtractTables(dirs, files, sessions[sid], sid, fault), fault)

CallExtractStructured(sid) ==
    /\ calls < MaxCalls
    /\ \E fault \in BOOLEAN :
           Apply(ExtractStructured(dirs, files, sessions[sid], sid, fault), Env(fault))

CallCleanup(sid) ==
    /\ calls < MaxCalls
    /\ \E fault \in BOOLEAN :
           Apply(Cleanup(dirs, files, sessions[sid], sid, fault), Env(fault))

----------------------------------------------------------------------------
Init ==
    /\ dirs = {<<"in">>, <<"tmp">>}
    /\ files = (FsPath(SrcInput) :> SampleDoc)
    /\ made = {}
    /\ sessions = <<>>
    /\ last = NoResult
    /\ calls = 0
    /\ run = NoRun

Next ==
    \/ \E p \in Inputs : Construct(p)
    \/ \E sid \in 1..Len(sessions) : CallPerformOcr(sid)
    \/ \E sid \in 1..Len(sessions) : CallExtractText(sid)
    \/ \E sid \in 1..Len(sessions) : CallExtractImages(sid)
    \/ \E sid \in 1..Len(sessions) : CallExtractTables(sid)
    \/ \E sid \in 1..Len(sessions) : CallExtractStructured(sid)
    \/ \E sid \in 1..Len(sessions) : CallCleanup(sid)

Spec == Init /\ [][Next]_vars

\* One object, constructed on the source document, and the calls made on it.
InitOps ==
    /\ \E d \in Docs : files = (FsPath(SrcInput) :> d)
    /\ LET name == TmpName({}) IN
           /\ made = {name}
           /\ dirs = {<<"in">>, <<"tmp">>, Mkdtemp(name)}
           /\ sessions = <<NewSession(SrcInput, name)>>
           /\ last = [Result(1, "init") EXCEPT !.path = Mkdtemp(name)]
    /\ calls = 0
    /\ run = NoRun

NextOps ==
    \/ CallPerformOcr(1)
    \/ CallExtractText(1)
    \/ CallExtractImages(1)
    \/ CallExtractTables(1)
    \/ CallExtractStructured(1)
    \/ CallCleanup(1)

SpecOps == InitOps /\ [][NextOps]_vars
----------------------------------------------------------------------------
\* The front ends: main of cli.py and WorkerThread.run of gui.py.  A run is a
\* sequence of steps, one for each block of the function; run.pc is the block
\* the run is at.

OutDir == <<"out">>

Last(p) == p[Len(p)]

\* shutil.copy2(src, dst)
Copy2(ds, fs, src, dst, fault) ==
    IF ~fault /\ src \in DOMAIN fs /\ Parent(dst) \in ds /\ src # dst
    THEN [ok |-> TRUE, files |-> WriteFile(fs, dst, fs[src])]
    ELSE [ok |-> FALSE, files |-> fs]

\* The files a directory holds: src_dir.glob("*") filtered by is_file().
FilesIn(fs, d) == {q \in DOMAIN fs : Parent(q) = d}

CopyInto(fs, srcs, dst_dir) ==
    [q \in DOMAIN fs \cup {Join(dst_dir, Last(x)) : x \in srcs} |->
        IF \E x \in srcs : q = Join(dst_dir, Last(x))
        THEN fs[CHOOSE x \in srcs : q = Join(dst_dir, Last(x))]
        ELSE fs[q]]

\* (a slip: `not all(...)` for `not any(...)`)
NormaliseNotAll(a) ==
    IF ~(a.ocr /\ a.extract_text /\ a.extract_images /\ a.extract_tables)
       \/ a.extract_all
    THEN [a EXCEPT !.extract_all = TRUE, !.ocr = TRUE, !.extract_text = TRUE,
                   !.extract_images = TRUE, !.extract_tables = TRUE]
    ELSE a

\* (a slip: the default of lines 85-86 left out)
NormaliseNoDefault(a) ==
    IF a.extract_all
    THEN [a EXCEPT !.ocr = TRUE, !.extract_text = TRUE,
                   !.extract_images = TRUE, !.extract_tables = TRUE]
    ELSE a

\* cli.py main: with no operation flag every operation is switched on, and
\* --extract-all sets the four flags.
Normalise(a) ==
    LET b == IF ~(a.ocr \/ a.extract_text \/ a.extract_images \/ a.extract_tables)
             THEN [a EXCEPT !.extract_all = TRUE] ELSE a
    IN  IF b.extract_all
        THEN [b EXCEPT !.ocr = TRUE, !.extract_text = TRUE,
                       !.extract_images = TRUE, !.extract_tables = TRUE]
        ELSE b

\* The two ways the CLI is started: cli.py itself, or main.py --cli.
Launchers == {"cli.py", "main.py"}

\* The exit status of the process when cli.py's main has returned ret:
\* cli.py ends in exit(main()); main.py calls cli_main(), drops what it
\* returns and returns None itself, and the interpreter then exits with 0.
ExitStatus(via, ret) == IF via = "main.py" THEN 0 ELSE ret

\* main of cli.py returns ret and the process ends.
Return(r, ret) ==
    IF r.frontend = "cli"
    THEN [r EXCEPT !.code = ret, !.status = ExitStatus(r.via, ret)]
    ELSE r

\* A signal of the worker thread: update_progress(value, ...),
\* finished(results) or error(message); value is the percentage of a
\* progress signal and 0 for the other two.
Signal(name, value) == [signal |-> name, value |-> value]

\* An exception reaches the except clause of the front end: main returns 1,
\* the worker thread emits its error signal.
Fail(r, why) ==
    [Return(r, 1) EXCEPT !.pc = "exit", !.escaped = why,
              !.events = IF r.frontend = "gui"
                         THEN Append(@, Signal("error", 0)) ELSE @]

\* self.update_progress.emit(percent, ...) in the worker thread.
Progress(r, percent) ==
    IF r.frontend = "gui"
    THEN [r EXCEPT !.events = Append(@, Signal("update_progress", percent))]
    ELSE r

\* The front end has called a method of the parser and got ret back.
Invoked(r, ret) ==
    [r EXCEPT !.invoked = Append(@, ret.op),
              !.degraded = IF ret.log = "error" THEN @ \cup {ret.op} ELSE @]

AfterTables(r) == IF r.frontend = "gui" THEN "structured" ELSE "cleanup"

\* main, up to the try block: the input check, setup_output_dir and the flags.
RunStart ==
    /\ run.pc = "start"
    /\ IF ~Exists(dirs, files, FsPath(run.input))
       THEN /\ run' = [Return(run, 1) EXCEPT !.pc = "exit"]
            /\ UNCHANGED <<dirs, files, made, sessions, last, calls>>
       ELSE /\ dirs' = dirs \cup {OutDir}
            /\ run' = [run EXCEPT !.pc = "init", !.args = Normalise(@)]
            /\ UNCHANGED <<files, made, sessions, last, calls>>

\* parser = PDFParser(...) inside the try block.
RunInit ==
    /\ run.pc = "init"
    /\ IF ~InitOk(dirs, files, run.input)
       THEN /\ last' = [Result(1, "init") EXCEPT !.raised = "FileNotFoundError"]
            /\ run' = Fail(run, "init")
            /\ UNCHANGED <<dirs, files, made, sessions, calls>>
       ELSE LET name == TmpName(made) IN
            /\ made' = made \cup {name}
            /\ dirs' = dirs \cup {Mkdtemp(name)}
            /\ sessions' = <<NewSession(run.input, name)>>
            /\ last' = [Result(1, "init") EXCEPT !.path = Mkdtemp(name)]
            /\ run' = [run EXCEPT !.pc = "ocr", !.invoked = Append(@, "init")]
            /\ UNCHANGED <<files, calls>>

RunOcr ==
    /\ run.pc = "ocr"
    /\ UNCHANGED <<made, sessions, calls>>
    /\ IF ~run.args.ocr
       THEN /\ run' = [run EXCEPT !.pc = "text"]
            /\ UNCHANGED <<dirs, files, last>>
       ELSE \E fault \in BOOLEAN, cfault \in BOOLEAN :
            LET o == PerformOcr(dirs, files, sessions[1], 1, fault)
                r == Invoked(Progress(run, 10), o.ret)
                ocr_output == Join(OutDir, "ocr_" \o PathName(run.input))
                c == Copy2(o.dirs, o.files, o.ret.path, ocr_output, cfault)
            IN  /\ dirs' = o.dirs
                /\ last' = WithEnv(o.ret, Env(fault))
                /\ IF o.ret.raised # ""
                   THEN /\ files' = o.files
                        /\ run' = Fail(r, "raised")
                   ELSE IF Exists(o.dirs, o.files, o.ret.path)
                   THEN /\ files' = c.files
                        /\ run' = IF c.ok THEN [r EXCEPT !.pc = "text"]
                                  ELSE Fail(r, "copy")
                   ELSE /\ files' = o.files
                        /\ run' = [r EXCEPT !.pc = "text"]

\* save_text of cli.py, and the same lines of the worker thread.
RunText ==
    /\ run.pc = "text"
    /\ UNCHANGED <<made, sessions, calls>>
    /\ IF ~run.args.extract_text
       THEN /\ run' = [run EXCEPT !.pc = "images"]
            /\ UNCHANGED <<dirs, files, last>>
       ELSE \E fault \in BOOLEAN, cfault \in BOOLEAN :
            LET o == ExtractText(dirs, files, sessions[1], 1, fault)
                r == Invoked(Progress(run, 30), o.ret)
                output_file == Join(OutDir, "extracted_text.txt")
            IN  /\ dirs' = o.dirs
                /\ last' = WithEnv(o.ret, Env(fault))
                /\ IF o.ret.raised # ""
                   THEN /\ files' = o.files
                        /\ run' = Fail(r, "raised")
                   ELSE IF o.ret.text = ""
                   THEN /\ files' = o.files
                        /\ run' = [r EXCEPT !.pc = "images"]
                   ELSE IF cfault \/ ~CanCreate(o.dirs, output_file)
                   THEN /\ files' = o.files
                        /\ run' = Fail(r, "copy")
                   ELSE /\ files' = WriteFile(o.files, output_file,
                                        [kind |-> "txt", text |-> o.ret.text])
                        /\ run' = [r EXCEPT !.pc = "images"]

\* copy_files of cli.py, and the loop of the worker thread: the files of the
\* images directory are copied one by one; `copied` are those copied before
\* a copy fails, all of them if none fails.
RunImages ==
    /\ run.pc = "images"
    /\ UNCHANGED <<made, sessions, calls>>
    /\ IF ~run.args.extract_images
       THEN /\ run' = [run EXCEPT !.pc = "tables"]
            /\ UNCHANGED <<dirs, files, last>>
       ELSE \E fault \in ImageFaults(NumImages(files, sessions[1])) :
            LET o == ExtractImages(dirs, files, sessions[1], 1, fault)
                r == Invoked(Progress(run, 50), o.ret)
                images_output == Join(OutDir, "images")
            IN  /\ last' = WithEnv(o.ret, fault)
                /\ IF o.ret.raised # ""
                   THEN /\ dirs' = o.dirs
                        /\ files' = o.files
                        /\ run' = Fail(r, "raised")
                   ELSE IF o.ret.none \/ ~Exists(o.dirs, o.files, o.ret.path)
                   THEN /\ dirs' = o.dirs
                        /\ files' = o.files
                        /\ run' = [r EXCEPT !.pc = "tables"]
                   ELSE \E copied \in SUBSET FilesIn(o.files, o.ret.path) :
                        /\ dirs' = o.dirs \cup {images_output}
                        /\ files' = CopyInto(o.files, copied, images_output)
                        /\ run' = IF copied = FilesIn(o.files, o.ret.path)
                                  THEN [r EXCEPT !.pc = "tables"]
                                  ELSE Fail(r, "copy")

RunTables ==
    /\ run.pc = "tables"
    /\ UNCHANGED <<made, sessions, calls>>
    /\ IF ~run.args.extract_tables
       THEN /\ run' = [run EXCEPT !.pc = AfterTables(run)]
            /\ UNCHANGED <<dirs, files, last>>
       ELSE \E fault \in TableFaults(NumTables(files, sessions[1])),
               cfault \in BOOLEAN :
            LET o == ExtractTables(dirs, files, sessions[1], 1, fault)
                r == Invoked(Progress(run, 70), o.ret)
                tables_output ==
                    Join(OutDir, "tables_" \o PathStem(run.input) \o ".xlsx")
                c == Copy2(o.dirs, o.files, o.ret.path, tables_output, cfault)
            IN  /\ dirs' = o.dirs
                /\ last' = WithEnv(o.ret, fault)
                /\ IF o.ret.raised # ""
                   THEN /\ files' = o.files
                        /\ run' = Fail(r, "raised")
                   ELSE IF ~o.ret.none /\ Exists(o.dirs, o.files, o.ret.path)
                   THEN /\ files' = c.files
                        /\ run' = IF c.ok THEN [r EXCEPT !.pc = AfterTables(run)]
                                  ELSE Fail(r, "copy")
                   ELSE /\ files' = o.files
                        /\ run' = [r EXCEPT !.pc = AfterTables(run)]

\* Only the worker thread has this block.
RunStructured ==
    /\ run.pc = "structured"
    /\ UNCHANGED <<made, sessions, calls>>
    /\ IF ~run.args.extract_structured
       THEN /\ run' = [run EXCEPT !.pc = "cleanup"]
            /\ UNCHANGED <<dirs, files, last>>
       ELSE \E fault \in BOOLEAN :
            LET o == ExtractStructured(dirs, files, sessions[1], 1, fault)
                r == Invoked(Progress(run, 90), o.ret)
            IN  /\ dirs' = o.dirs
                /\ files' = o.files
                /\ last' = WithEnv(o.ret, Env(fault))
                /\ run' = IF o.ret.raised # "" THEN Fail(r, "raised")
                          ELSE [r EXCEPT !.pc = "cleanup"]

\* (a slip: the finished signal emitted where an exception after it still
\* reaches the except clause)
FinishThenError(r) ==
    [Return(r, 0) EXCEPT !.pc = "exit",
              !.events = IF r.frontend = "gui"
                         THEN @ \o <<Signal("update_progress", 100),
                                     Signal("finished", 0), Signal("error", 0)>>
                         ELSE @]

\* The end of the try block: cleanup unless keep_temp, then return 0, or the
\* last progress signal and the finished signal.
Finish(r) ==
    [Return(r, 0) EXCEPT !.pc = "exit",
              !.events = IF r.frontend = "gui"
                         THEN @ \o <<Signal("update_progress", 100),
                                     Signal("finished", 0)>>
                         ELSE @]

\* (a slip: keep_temp not looked at)
RunCleanupIgnoresKeep ==
    /\ run.pc = "cleanup"
    /\ UNCHANGED <<made, sessions, calls>>
    /\ \E fault \in BOOLEAN :
          LET o == Cleanup(dirs, files, sessions[1], 1, fault)
          IN  /\ dirs' = o.dirs
              /\ files' = o.files
              /\ last' = WithEnv(o.ret, Env(fault))
              /\ run' = Finish(Invoked(run, o.ret))

RunCleanup ==
    /\ run.pc = "cleanup"
    /\ UNCHANGED <<made, sessions, calls>>
    /\ IF run.args.keep_temp
       THEN /\ run' = Finish(run)
            /\ UNCHANGED <<dirs, files, last>>
       ELSE \E fault \in BOOLEAN :
            LET o == Cleanup(dirs, files, sessions[1], 1, fault)
            IN  /\ dirs' = o.dirs
                /\ files' = o.files
                /\ last' = WithEnv(o.ret, Env(fault))
                /\ run' = IF o.ret.raised # ""
                          THEN Fail(Invoked(run, o.ret), "raised")
                          ELSE Finish(Invoked(run, o.ret))

CliArgs == {a \in Flags : ~a.extract_structured}
GuiOptions ==
    {a \in Flags : /\ ~a.extract_all
                   /\ \/ a.ocr \/ a.extract_text \/ a.extract_images
                      \/ a.extract_tables \/ a.extract_structured}

\* The documents the front ends are run on: those with the images of the
\* sample, and the one that has the most images, all on its only page.
RunDocs ==
    {d \in Docs : \/ d.pages = SampleDoc.pages
                  \/ Len(d.pages) = 1 /\ Sum(d.pages) = MaxImgs}

InitRun ==
    /\ \E d \in RunDocs : files = (FsPath(SrcInput) :> d)
    /\ made = {}
    /\ sessions = <<>>
    /\ last = NoResult
    /\ calls = 0
    /\ \/ /\ dirs = {<<"in">>, <<"tmp">>}
          /\ \E a \in CliArgs, p \in Inputs, v \in Launchers :
                run = [NoRun EXCEPT !.frontend = "cli", !.input = p, !.via = v,
                                    !.args = a, !.given = a, !.pc = "start"]
       \/ /\ dirs = {<<"in">>, <<"tmp">>, OutDir}
          /\ \E a \in GuiOptions, p \in Inputs :
                run = [NoRun EXCEPT !.frontend = "gui", !.input = p,
                                    !.args = a, !.given = a, !.pc = "init"]

NextRun ==
    \/ RunStart
    \/ RunInit
    \/ RunOcr
    \/ RunText
    \/ RunImages
    \/ RunTables
    \/ RunStructured
    \/ RunCleanup

SpecRun == InitRun /\ [][NextRun]_vars

----------------------------------------------------------------------------
\* gui.py: the main window and its worker thread.  The slots of the window
\* run on the GUI thread, one at a time; the steps of WorkerThread.run
\* interleave with them, and its signals reach the slots in the order of
\* emission.

\* update_process_button
UpdateProcessButton(w) ==
    [w EXCEPT !.process_btn = (w.pdf_path # NonePath /\ w.output_dir # <<>>)]

\* browse_pdf, reached by a click on its button: the file the user picks,
\* which may be gone by the time the worker opens it, or no file (the
\* dialog is cancelled).
BrowsePdf ==
    /\ run.frontend = "gui"
    /\ run.window.browse_pdf_btn
    /\ \E file_path \in Inputs \cup {NonePath} :
          run' = IF file_path # NonePath
                 THEN [run EXCEPT !.window =
                          UpdateProcessButton([@ EXCEPT !.pdf_path = file_path])]
                 ELSE run
    /\ UNCHANGED <<dirs, files, made, sessions, last, calls>>

\* browse_output, reached by a click on its button.
BrowseOutput ==
    /\ run.frontend = "gui"
    /\ run.window.browse_output_btn
    /\ \E dir_path \in {OutDir, <<>>} :
          run' = IF dir_path # <<>>
                 THEN [run EXCEPT !.window =
                          [UpdateProcessButton([@ EXCEPT !.output_dir = dir_path])
                              EXCEPT !.open_output_btn = TRUE]]
                 ELSE run
    /\ UNCHANGED <<dirs, files, made, sessions, last, calls>>

\* The states of the checkboxes a run of the window is started with: none
\* checked, text alone, and structured content alone keeping the scratch
\* directory.
GuiChoices ==
    {a \in GuiOptions \cup {NoRun.args} :
        \/ ~(\/ a.ocr \/ a.extract_text \/ a.extract_images
             \/ a.extract_tables \/ a.extract_structured \/ a.keep_temp)
        \/ /\ a.extract_text /\ ~a.keep_temp
           /\ ~(a.ocr \/ a.extract_images \/ a.extract_tables \/ a.extract_structured)
        \/ /\ a.extract_structured /\ a.keep_temp
           /\ ~(a.ocr \/ a.extract_text \/ a.extract_images \/ a.extract_tables)}

AnyChecked(a) ==
    \/ a.ocr \/ a.extract_text \/ a.extract_images
    \/ a.extract_tables \/ a.extract_structured

\* (a slip: the process button left enabled while the worker runs)
StartedWindowEnabled(w) ==
    [w EXCEPT !.browse_pdf_btn = FALSE, !.browse_output_btn = FALSE,
              !.tabs = "cleared", !.handled = 0, !.started = @ + 1]

\* start_processing from "disable the buttons" on: the window with its
\* buttons disabled, its result views cleared and a new worker thread.
StartedWindow(w) ==
    [w EXCEPT !.process_btn = FALSE, !.browse_pdf_btn = FALSE,
              !.browse_output_btn = FALSE,
              !.tabs = "cleared", !.handled = 0, !.started = @ + 1]

\* start_processing, reached by a click on the process button, with the
\* checkboxes as the user has left them.  The new WorkerThread replaces
\* self.worker_thread.
StartProcessing ==
    /\ run.frontend = "gui"
    /\ run.window.process_btn
    /\ run.window.started < MaxRuns
    /\ \E options \in GuiChoices :
          run' = IF run.window.pdf_path = NonePath \/ run.window.output_dir = <<>>
                 THEN [run EXCEPT !.window.dialog = "warning"]
                 ELSE IF ~AnyChecked(options)
                 THEN [run EXCEPT !.window.dialog = "warning"]
                 ELSE [NoRun EXCEPT !.frontend = "gui",
                                    !.input = run.window.pdf_path,
                                    !.args = options, !.given = options,
                                    !.pc = "init",
                                    !.window = StartedWindow(run.window)]
    /\ UNCHANGED <<dirs, files, made, sessions, last, calls>>

\* processing_finished and processing_error: both enable the three buttons
\* again and show a message box.
ProcessingFinished(w) ==
    [w EXCEPT !.tabs = "results", !.process_btn = TRUE, !.browse_pdf_btn = TRUE,
              !.browse_output_btn = TRUE, !.dialog = "information"]

ProcessingError(w) ==
    [w EXCEPT !.process_btn = TRUE, !.browse_pdf_btn = TRUE,
              !.browse_output_btn = TRUE, !.dialog = "critical"]

\* The slot connected to the next signal of the worker thread runs:
\* update_progress, processing_finished or processing_error.
HandleSignal ==
    /\ run.frontend = "gui"
    /\ run.window.handled < Len(run.events)
    /\ LET e == run.events[run.window.handled + 1]
           w == [run.window EXCEPT !.handled = @ + 1]
       IN  run' = [run EXCEPT !.window =
                      CASE e.signal = "update_progress" ->
                             [w EXCEPT !.progress_bar = e.value]
                        [] e.signal = "finished" -> ProcessingFinished(w)
                        [] e.signal = "error" -> ProcessingError(w)]
    /\ UNCHANGED <<dirs, files, made, sessions, last, calls>>

InitGui ==
    /\ dirs = {<<"in">>, <<"tmp">>, OutDir}
    /\ files = (FsPath(SrcInput) :> SampleDoc)
    /\ made = {}
    /\ sessions = <<>>
    /\ last = NoResult
    /\ calls = 0
    /\ run = [NoRun EXCEPT !.frontend = "gui"]

NextGui ==
    \/ BrowsePdf
    \/ BrowseOutput
    \/ StartProcessing
    \/ HandleSignal
    \/ RunInit
    \/ RunOcr
    \/ RunText
    \/ RunImages
    \/ RunTables
    \/ RunStructured
    \/ RunCleanup

SpecGui == InitGui /\ [][NextGui]_vars

----------------------------------------------------------------------------
\* The claims.

Methods == {"ocr", "text", "images", "tables", "structured", "cleanup"}

\* C1: once a PDFParser is constructed, no call of perform_ocr,
\* extract_text_with_pdfminer, extract_images, extract_tables,
\* extract_structured_content or cleanup raises to the caller, whatever was
\* called before (cleanup included) and whatever fails underneath.
C1_NoMethodRaises == last.op \in Methods => last.raised = ""

InputMissing == ~Exists(dirs, files, FsPath(run.input))

\* C2: with an input path that does not exist no scratch directory is ever
\* created: the constructor raises FileNotFoundError before mkdtemp, and the
\* CLI main returns 1 without constructing a PDFParser.
C2_NoScratchForMissingInput ==
    (run.frontend # "none" /\ InputMissing) =>
        /\ made = {}
        /\ sessions = <<>>
        /\ \A d \in dirs : ~IsUnder(d, <<"tmp">>)
        /\ run.frontend = "cli" => last.op = "none" /\ run.invoked = <<>>
        /\ (run.frontend = "cli" /\ run.pc = "exit") => run.code = 1
        /\ (run.frontend = "gui" /\ run.pc = "exit") =>
               last.op = "init" /\ last.raised = "FileNotFoundError"

C2_Witness ==
    /\ run.frontend = "gui" /\ run.pc = "exit" /\ InputMissing
    /\ last.raised = "FileNotFoundError"

\* C3: every successful construction yields a scratch directory that did not
\* exist before, is empty, and is not the scratch directory of any object
\* constructed earlier, the objects constructed on the same source file
\* included.
C3_FreshScratch ==
    [][Len(sessions') > Len(sessions) =>
        LET t == sessions'[Len(sessions')].temp_dir
        IN  /\ ~Exists(dirs, files, t)
            /\ t \in dirs'
            /\ \A q \in dirs' \cup DOMAIN files' : ~IsUnder(q, t)
            /\ \A i \in 1..Len(sessions) : sessions[i].temp_dir # t]_vars

C3_Witness ==
    /\ Len(sessions) = 2
    /\ last.op = "init" /\ last.raised = "" /\ last.sid = 2
    /\ sessions[1].pdf_path = sessions[2].pdf_path
    /\ sessions[1].temp_dir \in dirs
    /\ \E q \in DOMAIN files : IsUnder(q, sessions[1].temp_dir)
    /\ \A q \in DOMAIN files : ~IsUnder(q, sessions[2].temp_dir)

\* The source document, the one parser object of SpecOps and of a run, and
\* the names the outputs are to have.
SrcDoc == files[<<"in", "doc.pdf">>]
Scratch == sessions[1].temp_dir
Live == sessions # <<>> /\ Scratch \in dirs
Range(q) == {q[i] : i \in 1..Len(q)}
Names(paths) == {q[Len(q)] : q \in paths}

OutOcr == <<"out", "ocr_doc.pdf">>
OutText == <<"out", "extracted_text.txt">>
OutImages == <<"out", "images">>
OutTables == <<"out", "tables_doc.xlsx">>

\* image_p<page>_<index>.<ext>, page and index counted from 1.
ImageNames(doc) ==
    {"image_p" \o ToString(x[1]) \o "_" \o ToString(x[2]) \o "."
        \o (IF (x[1] + x[2]) % 2 = 0 THEN "png" ELSE "jpeg") :
     x \in {y \in (1..Len(doc.pages)) \X (1..MaxImgs) : y[2] <= doc.pages[y[1]]}}

TotalImages(doc) == Sum(doc.pages)

RunEnded == run.pc = "exit" /\ ~InputMissing
FrontEndFault == run.escaped \in {"copy", "init"}
MkdirFailed == last.op = "images" /\ last.env.kind = "mkdir"

SelectedNow(op) ==
    CASE op = "ocr" -> run.args.ocr
      [] op = "text" -> run.args.extract_text
      [] op = "images" -> run.args.extract_images
      [] op = "tables" -> run.args.extract_tables
      [] op = "structured" -> run.frontend = "gui" /\ run.args.extract_structured

Operations == {"ocr", "text", "images", "tables", "structured"}

\* C4: a fault in one extraction does not block the others.  In a run that
\* has ended and in which the only faults were failures inside the parser's
\* methods (no copy into the destination failed, the constructor did not
\* raise, mkdir of the images directory did not fail), no exception reached
\* the front end, every selected operation was invoked, and the output of
\* every selected operation that did not fail is in the destination.
C4_FaultIsolation ==
    (RunEnded /\ ~FrontEndFault /\ ~MkdirFailed) =>
        /\ run.escaped = ""
        /\ \A op \in Operations : SelectedNow(op) => op \in Range(run.invoked)
        /\ SelectedNow("ocr") =>
              /\ OutOcr \in DOMAIN files
              /\ files[OutOcr] = IF "ocr" \in run.degraded
                                 THEN SrcDoc ELSE OcrOf(SrcDoc)
        /\ (SelectedNow("text") /\ "text" \notin run.degraded /\ SrcDoc.text # "") =>
              /\ OutText \in DOMAIN files
              /\ files[OutText].text = SrcDoc.text
        /\ (SelectedNow("images") /\ "images" \notin run.degraded) =>
              /\ OutImages \in dirs
              /\ Names(FilesIn(files, OutImages)) = ImageNames(SrcDoc)
        /\ (SelectedNow("tables") /\ "tables" \notin run.degraded
                /\ SrcDoc.text # "" /\ SrcDoc.tables > 0) =>
              /\ OutTables \in DOMAIN files
              /\ Len(files[OutTables].sheets) = SrcDoc.tables

C4_Witness ==
    /\ RunEnded /\ run.escaped = ""
    /\ {"ocr", "images"} \subseteq run.degraded
    /\ "text" \notin run.degraded /\ "tables" \notin run.degraded
    /\ OutOcr \in DOMAIN files
    /\ OutText \in DOMAIN files
    /\ OutTables \in DOMAIN files

\* C5: perform_ocr returns ocr_<original-filename> inside the scratch
\* directory when the OCR engine succeeds, and the path of the source file,
\* which is no path of the scratch directory, when it fails; it raises in
\* neither case.
C5_OcrPath ==
    (last.op = "ocr" /\ run.frontend = "none") =>
        /\ last.raised = ""
        /\ (last.env.kind = "none" /\ Live) =>
              /\ last.path = Scratch \o <<"ocr_doc.pdf">>
              /\ last.path \in DOMAIN files
              /\ last.log = "info"
        /\ (last.env.kind # "none" \/ ~Live) =>
              /\ last.path = <<"in", "doc.pdf">>
              /\ ~IsUnder(last.path, Scratch)
              /\ last.log = "error"

C5_Witness ==
    /\ last.op = "ocr" /\ run.frontend = "none"
    /\ last.env.kind = "fault" /\ Live
    /\ sessions[1].ocr_path \in DOMAIN files
    /\ last.path = <<"in", "doc.pdf">>

\* C6: on a document of K embedded images a call of extract_images in which
\* nothing but optimisation steps fail leaves exactly K files in the images
\* directory of the scratch directory, named by 1-based page and per-page
\* index, no two alike; the files whose optimisation failed are as written,
\* all others are optimised, and the call returns the images directory.
C6_ImagesWritten ==
    (last.op = "images" /\ run.frontend = "none" /\ last.env.kind = "none" /\ Live) =>
        LET images_dir == Scratch \o <<"images">>
            written == FilesIn(files, images_dir)
            imgs == ImagesOf(SrcDoc)
        IN  /\ last.raised = "" /\ ~last.none
            /\ last.path = images_dir
            /\ Cardinality(written) = TotalImages(SrcDoc)
            /\ Names(written) = ImageNames(SrcDoc)
            /\ Cardinality(Names(written)) = TotalImages(SrcDoc)
            /\ last.warnings = Cardinality(last.env.opt)
            /\ \A i \in 1..Len(imgs) :
                  files[ImageFilename(images_dir, imgs[i])].data =
                      IF i \in last.env.opt THEN "raw" ELSE "opt"

C6_Witness ==
    /\ last.op = "images" /\ run.frontend = "none" /\ last.env.kind = "none" /\ Live
    /\ Len(SrcDoc.pages) = 2 /\ TotalImages(SrcDoc) = 2
    /\ last.env.opt = {1}
    /\ ~last.none
    /\ Cardinality(FilesIn(files, Scratch \o <<"images">>)) = 2

Detected == IF SrcDoc.text = "" THEN 0 ELSE SrcDoc.tables

\* C7: when the detector reports no table extract_tables returns None, does
\* not raise and there is no workbook in the scratch directory; when it
\* returns a workbook, that is tables_<stem>.xlsx in the scratch directory
\* and its sheets are Table_1 .. Table_N, N >= 1 the number of tables the
\* detector reported, in that order.
C7_Tables ==
    (last.op = "tables" /\ run.frontend = "none") =>
        /\ last.raised = ""
        /\ (last.env.kind # "detect" /\ Detected = 0) =>
              /\ last.none
              /\ \A q \in DOMAIN files : ~IsUnder(q, Scratch) \/ files[q].kind # "xlsx"
        /\ ~last.none =>
              /\ Detected >= 1
              /\ last.path = Scratch \o <<"tables_doc.xlsx">>
              /\ last.path \in DOMAIN files
              /\ files[last.path].sheets =
                     [i \in 1..Detected |-> "Table_" \o ToString(i)]
        /\ (last.env.kind = "none" /\ Detected >= 1 /\ Live) => ~last.none

C7_Witness ==
    /\ last.op = "tables" /\ run.frontend = "none" /\ ~last.none
    /\ files[last.path].sheets = <<"Table_1", "Table_2">>

\* C8: a cleanup whose rmtree does not fail removes the scratch directory and
\* everything under it and nothing else; a cleanup called when the scratch
\* directory is gone does not raise, logs the failure and leaves the file
\* system as it is.
C8_Cleanup ==
    [][(last'.op = "cleanup" /\ calls' = calls + 1) =>
        /\ last'.raised = ""
        /\ (Live /\ last'.env.kind = "none") =>
              /\ Scratch \notin dirs'
              /\ \A q \in dirs' \cup DOMAIN files' : ~IsUnder(q, Scratch)
              /\ \A q \in dirs : (q # Scratch /\ ~IsUnder(q, Scratch)) => q \in dirs'
              /\ \A q \in DOMAIN files :
                    ~IsUnder(q, Scratch) => q \in DOMAIN files' /\ files'[q] = files[q]
        /\ ~Live =>
              /\ dirs' = dirs
              /\ files' = files
              /\ last'.log = "error"]_vars

C8_Witness ==
    /\ last.op = "cleanup" /\ run.frontend = "none"
    /\ ~Live /\ last.log = "error" /\ last.env.kind = "none"
    /\ calls >= 2

Chosen(flag) ==
    IF run.frontend = "cli"
    THEN \/ run.given[flag]
         \/ run.given.extract_all
         \/ ~(\/ run.given.ocr \/ run.given.extract_text
              \/ run.given.extract_images \/ run.given.extract_tables)
    ELSE run.given[flag]

Present(name) == \E q \in dirs \cup DOMAIN files : q[Len(q)] = name

\* C9: an operation that was not selected is never invoked and leaves no
\* artifact: no extracted_text.txt, no images directory, no ocr_<filename>,
\* no tables_<stem>.xlsx, in the destination or in the scratch directory.
\* In the CLI the four operations are selected by their flags, by
\* --extract-all, or by giving none of the four flags; in the GUI by their
\* checkboxes.
C9_OnlySelected ==
    run.frontend # "none" =>
        /\ ~Chosen("ocr") =>
              "ocr" \notin Range(run.invoked) /\ ~Present("ocr_doc.pdf")
        /\ ~Chosen("extract_text") =>
              "text" \notin Range(run.invoked) /\ ~Present("extracted_text.txt")
        /\ ~Chosen("extract_images") =>
              "images" \notin Range(run.invoked) /\ ~Present("images")
        /\ ~Chosen("extract_tables") =>
              "tables" \notin Range(run.invoked) /\ ~Present("tables_doc.xlsx")
        /\ (run.frontend = "cli" \/ ~run.given.extract_structured) =>
              "structured" \notin Range(run.invoked)

C9_Witness ==
    /\ RunEnded /\ run.escaped = ""
    /\ Chosen("extract_text") /\ Chosen("extract_tables")
    /\ ~Chosen("ocr") /\ ~Chosen("extract_images")
    /\ OutText \in DOMAIN files /\ OutTables \in DOMAIN files

AloneDirs == {<<"in">>, <<"tmp">>, Scratch}
AloneFiles == (<<"in", "doc.pdf">> :> SrcDoc)

Alone(op, env) ==
    CASE op = "ocr" ->
           PerformOcr(AloneDirs, AloneFiles, sessions[1], 1, env.kind # "none").ret
      [] op = "text" ->
           ExtractText(AloneDirs, AloneFiles, sessions[1], 1, env.kind # "none").ret
      [] op = "images" ->
           ExtractImages(AloneDirs, AloneFiles, sessions[1], 1, env).ret
      [] op = "tables" ->
           ExtractTables(AloneDirs, AloneFiles, sessions[1], 1, env).ret
      [] op = "structured" ->
           ExtractStructured(AloneDirs, AloneFiles, sessions[1], 1, env.kind # "none").ret

\* C10: before cleanup, every extraction reads the source file and nothing
\* else, and its outcome is the outcome it has on an object on which nothing
\* else was called; text, tables and structured content come from the source
\* as it is, also when an OCR copy with recognised text is in the scratch
\* directory.
C10_Independent ==
    (last.op \in Operations /\ run.frontend = "none" /\ Live) =>
        /\ last.raised = "" => last.read = <<"in", "doc.pdf">>
        /\ last = WithEnv(Alone(last.op, last.env), last.env)
        /\ (last.op = "text" /\ last.env.kind = "none") => last.text = SrcDoc.text
        /\ (last.op = "tables" /\ last.env.kind = "none") =>
              (last.none <=> Detected = 0)
        /\ (last.op = "structured" /\ last.env.kind = "none") =>
              (last.elements = <<>> <=> SrcDoc.text = "")

C10_Witness ==
    /\ last.op = "text" /\ run.frontend = "none" /\ Live
    /\ last.env.kind = "none"
    /\ sessions[1].ocr_path \in DOMAIN files
    /\ files[sessions[1].ocr_path].text = "R"
    /\ last.text = ""

NoFlagGiven ==
    ~(\/ run.given.ocr \/ run.given.extract_text
      \/ run.given.extract_images \/ run.given.extract_tables)
AllRequested == run.frontend = "cli" /\ (NoFlagGiven \/ run.given.extract_all)
CliDone == run.frontend = "cli" /\ run.pc = "exit" /\ run.code = 0
IsPrefix(p, q) == Len(p) <= Len(q) /\ \A i \in 1..Len(p) : p[i] = q[i]
CliOperations == {"ocr", "text", "images", "tables"}

\* C11 as stated: a CLI run with none of --ocr, --extract-text,
\* --extract-images, --extract-tables, or with --extract-all, that completes
\* has invoked all five extractions, extract_structured_content included.
C11_AllFiveRun ==
    (AllRequested /\ CliDone) => Operations \subseteq Range(run.invoked)

\* C11, amended: such a run switches on the four operations the CLI has
\* flags for, whatever the individual flags are, and invokes them in the
\* order OCR, text, images, tables, all four when the run completes; it
\* never invokes extract_structured_content.
C11_AllFourRun ==
    (AllRequested /\ ~InputMissing) =>
        /\ run.pc # "start" =>
              /\ run.args.ocr /\ run.args.extract_text
              /\ run.args.extract_images /\ run.args.extract_tables
        /\ IsPrefix(run.invoked,
                    <<"init", "ocr", "text", "images", "tables", "cleanup">>)
        /\ CliDone => CliOperations \subseteq Range(run.invoked)
        /\ "structured" \notin Range(run.invoked)

C11_Witness ==
    /\ CliDone /\ NoFlagGiven /\ ~run.given.extract_all
    /\ CliOperations \subseteq Range(run.invoked)
    /\ OutOcr \in DOMAIN files /\ OutText \in DOMAIN files
    /\ OutImages \in dirs /\ OutTables \in DOMAIN files

\* C12: the CLI process exits with 0 when processing completes and with 1
\* when the input file is missing or an exception escapes during processing,
\* started as cli.py and started as main.py --cli alike.
C12_ExitCode ==
    (run.frontend = "cli" /\ run.pc = "exit") =>
        /\ run.via \in Launchers
        /\ run.status = IF InputMissing \/ run.escaped # "" THEN 1 ELSE 0

\* The checkpoint of each operation of the worker thread, in the order of
\* run, and those of the operations whose checkboxes are checked.
Checkpoints ==
    <<[flag |-> "ocr", value |-> 10], [flag |-> "extract_text", value |-> 30],
      [flag |-> "extract_images", value |-> 50],
      [flag |-> "extract_tables", value |-> 70],
      [flag |-> "extract_structured", value |-> 90]>>
IsChecked(c) == run.given[c.flag]
SelectedCheckpoints ==
    LET sel == SelectSeq(Checkpoints, IsChecked)
    IN  [i \in 1..Len(sel) |-> sel[i].value]
IsProgress(e) == e.signal = "update_progress"
IsTerminal(e) == e.signal \in {"finished", "error"}
ProgressValues ==
    LET prog == SelectSeq(run.events, IsProgress)
    IN  [i \in 1..Len(prog) |-> prog[i].value]

\* C13: the progress signals of a worker run carry strictly increasing
\* percentages: the checkpoints 10, 30, 50, 70, 90 of the checked
\* operations, in that order and none for an unchecked one, then 100; the
\* run ends with exactly one terminal signal, finished or error, which is
\* the last signal; 100 is emitted only in a run that ends in finished, and
\* finished only after 100.
C13_ProgressOrder ==
    run.frontend = "gui" =>
        LET ev == run.events
            n == Len(ev)
            pv == ProgressValues
            term == {i \in 1..n : IsTerminal(ev[i])}
        IN  /\ \A i \in 1..Len(pv) : pv[i] \in {10, 30, 50, 70, 90, 100}
            /\ \A i, j \in 1..Len(pv) : i < j => pv[i] < pv[j]
            /\ \/ IsPrefix(pv, SelectedCheckpoints)
               \/ pv = Append(SelectedCheckpoints, 100)
            /\ term \subseteq {n}
            /\ run.pc = "exit" <=> term # {}
            /\ (\E i \in 1..Len(pv) : pv[i] = 100) <=>
                  (n > 0 /\ ev[n].signal = "finished")
            /\ (n > 0 /\ ev[n].signal = "finished") =>
                  /\ n > 1 /\ ev[n - 1] = Signal("update_progress", 100)
                  /\ pv = Append(SelectedCheckpoints, 100)

C13_Witness ==
    /\ run.frontend = "gui" /\ run.pc = "exit"
    /\ run.given.ocr /\ ~run.given.extract_text /\ run.given.extract_images
    /\ run.given.extract_tables
    /\ ProgressValues = <<10, 50>>
    /\ run.events[Len(run.events)].signal = "error"

InScratch(q, t) == q = t \/ IsUnder(q, t)
InDestination(q) == q = OutDir \/ IsUnder(q, OutDir)

\* The paths that are not the same in the file system (ds, fs) and in
\* (ds2, fs2): created, removed or rewritten.
Differ(ds, fs, ds2, fs2) ==
    {q \in ds \cup ds2 : q \notin ds \/ q \notin ds2}
    \cup {q \in DOMAIN fs \cup DOMAIN fs2 :
             \/ q \notin DOMAIN fs
             \/ q \notin DOMAIN fs2
             \/ fs[q] # fs2[q]}

\* The method of the parser a step of a front end calls, with the fault the
\* environment chose for it, applied to the state the step starts in.
Called(op, env) ==
    CASE op = "ocr" ->
           PerformOcr(dirs, files, sessions[1], 1, env.kind # "none")
      [] op = "text" ->
           ExtractText(dirs, files, sessions[1], 1, env.kind # "none")
      [] op = "images" -> ExtractImages(dirs, files, sessions[1], 1, env)
      [] op = "tables" -> ExtractTables(dirs, files, sessions[1], 1, env)
      [] op = "structured" ->
           ExtractStructured(dirs, files, sessions[1], 1, env.kind # "none")
      [] op = "cleanup" ->
           Cleanup(dirs, files, sessions[1], 1, env.kind # "none")

\* C14: in every state of a run that has a parser, every file other than
\* the source and the copies in the destination lies under the one scratch
\* directory of the session, the only directory under the system's
\* temporary directory.  Every call of a method of the parser, whatever
\* fails in it, creates, rewrites and removes paths of the scratch directory
\* only; what the step of the front end changes beyond that, its copy-out,
\* is in the destination directory; and no step touches anything outside
\* the scratch directory and the destination directory.
C14_Confined ==
    /\ [](sessions # <<>> =>
            /\ \A q \in DOMAIN files :
                  \/ q = FsPath(SrcInput)
                  \/ IsUnder(q, Scratch)
                  \/ IsUnder(q, OutDir)
            /\ \A d \in dirs : IsUnder(d, <<"tmp">>) => InScratch(d, Scratch))
    /\ [][(Len(run'.invoked) > Len(run.invoked) /\ Last(run'.invoked) # "init") =>
             \A o \in {Called(Last(run'.invoked), last'.env)} :
                 /\ last' = WithEnv(o.ret, last'.env)
                 /\ \A q \in Differ(dirs, files, o.dirs, o.files) :
                       InScratch(q, Scratch)
                 /\ \A q \in Differ(o.dirs, o.files, dirs', files') :
                       InDestination(q)]_vars
    /\ [][\A q \in Differ(dirs, files, dirs', files') :
             \/ InDestination(q)
             \/ sessions' # <<>> /\ InScratch(q, sessions'[1].temp_dir)]_vars

C14_Witness ==
    /\ run.frontend # "none" /\ run.pc = "cleanup" /\ Live
    /\ Scratch \o <<"ocr_doc.pdf">> \in DOMAIN files
    /\ Scratch \o <<"tables_doc.xlsx">> \in DOMAIN files
    /\ FilesIn(files, Scratch \o <<"images">>) # {}
    /\ OutOcr \in DOMAIN files /\ OutTables \in DOMAIN files
    /\ FilesIn(files, OutImages) # {}

CleanupCalls == {i \in 1..Len(run.invoked) : run.invoked[i] = "cleanup"}
RmtreeFailed == last.op = "cleanup" /\ last.env.kind # "none"

\* C15: in a run of either front end on an existing input, cleanup is
\* called exactly when keep_temp is unset and no exception reached the
\* handler of the front end; it is called at most once, as the last call on
\* the parser and after every selected operation; the scratch directory is
\* gone at the end exactly when cleanup was called (and its rmtree did not
\* fail, which cleanup only logs).  With keep_temp set, or after an
\* exception caught by the handler, a failing copy included, cleanup is not
\* called and the scratch directory stays on disk with what it holds.
C15_CleanupOnlyOnSuccess ==
    (run.frontend # "none" /\ ~InputMissing) =>
        /\ Cardinality(CleanupCalls) <= 1
        /\ CleanupCalls \subseteq {Len(run.invoked)}
        /\ CleanupCalls # {} =>
              /\ run.pc = "exit"
              /\ \A op \in Operations : SelectedNow(op) => op \in Range(run.invoked)
        /\ run.pc = "exit" =>
              /\ CleanupCalls # {} <=> (~run.given.keep_temp /\ run.escaped = "")
              /\ sessions # <<>> =>
                    (Scratch \notin dirs <=> (CleanupCalls # {} /\ ~RmtreeFailed))
              /\ (sessions # <<>> /\ (run.given.keep_temp \/ run.escaped # "")) =>
                    /\ CleanupCalls = {}
                    /\ Scratch \in dirs
        /\ (run.pc # "exit" /\ sessions # <<>>) => Scratch \in dirs

C15_Witness ==
    /\ run.frontend = "cli" /\ run.pc = "exit" /\ run.escaped = "copy"
    /\ ~run.given.keep_temp
    /\ run.invoked = <<"init", "ocr", "text", "images">>
    /\ Scratch \in dirs
    /\ Scratch \o <<"ocr_doc.pdf">> \in DOMAIN files
    /\ FilesIn(files, Scratch \o <<"images">>) # {}

\* A worker thread is between its start and its terminal signal; the window
\* is between start_processing and the slot of the terminal signal.
WorkerRunning == run.frontend = "gui" /\ run.pc \notin {"none", "exit"}
Busy ==
    /\ run.window.started > 0
    /\ ~(run.pc = "exit" /\ run.window.handled = Len(run.events))
WorkerStarts == run'.window.started = run.window.started + 1

\* C16: at most one worker runs at a time.  From start_processing until
\* processing_finished or processing_error has run, the process button and
\* both browse buttons are disabled; a worker is started only by
\* start_processing, only with both paths set and an operation checked, only
\* when no worker is running, and leaves the buttons disabled; the process
\* button is enabled again only by the slot of the terminal signal, after
\* the worker has emitted it.
C16_OneWorker ==
    /\ [](Busy => /\ ~run.window.process_btn
                  /\ ~run.window.browse_pdf_btn
                  /\ ~run.window.browse_output_btn)
    /\ [](run.window.process_btn =>
             run.window.pdf_path # NonePath /\ run.window.output_dir # <<>>)
    /\ [][WorkerStarts =>
             /\ ~WorkerRunning /\ ~Busy
             /\ run.window.pdf_path # NonePath /\ run.window.output_dir # <<>>
             /\ AnyChecked(run'.given)
             /\ run'.pc = "init" /\ run'.events = <<>>
             /\ ~run'.window.process_btn
             /\ ~run'.window.browse_pdf_btn
             /\ ~run'.window.browse_output_btn]_vars
    /\ [][(~WorkerRunning /\ WorkerRunning') => WorkerStarts]_vars
    /\ [][(run.window.started > 0 /\ ~run.window.process_btn
              /\ run'.window.process_btn) =>
             /\ run.pc = "exit" /\ run'.pc = "exit"
             /\ run'.window.handled = Len(run.events)
             /\ IsTerminal(run.events[Len(run.events)])
             /\ run'.window.dialog \in {"information", "critical"}]_vars

\* A worker has run and its error signal has been handled, and a click on
\* the process button with nothing checked has then started no worker.
C16_Witness ==
    /\ run.window.started = 1 /\ run.pc = "exit"
    /\ run.window.handled = Len(run.events)
    /\ run.events[Len(run.events)].signal = "error"
    /\ run.window.dialog = "warning"
    /\ run.window.process_btn

OcrInvoked == "ocr" \in Range(run.invoked)
OcrCopyFailed == run.escaped = "copy" /\ Last(run.invoked) = "ocr"

\* C17: in a run of either front end with OCR selected in which the OCR
\* engine fails, perform_ocr returns the path of the source, which exists,
\* and the front end copies the source as it is to ocr_<filename> in the
\* destination, so that the file is there whether OCR succeeded or not.
\* Once perform_ocr has been called the file is missing only if that copy
\* itself raised, which ends the run; in a run that completes it is missing
\* only if OCR was not selected.
C17_OcrCopyOfSource ==
    (run.frontend # "none" /\ ~InputMissing) =>
        /\ (last.op = "ocr" /\ last.env.kind # "none") =>
              /\ last.raised = "" /\ ~last.none
              /\ last.path = FsPath(run.input)
              /\ Exists(dirs, files, last.path)
              /\ "ocr" \in run.degraded
        /\ (OcrInvoked /\ ~OcrCopyFailed) =>
              /\ OutOcr \in DOMAIN files
              /\ files[OutOcr] = IF "ocr" \in run.degraded
                                 THEN SrcDoc ELSE OcrOf(SrcDoc)
        /\ (OcrInvoked /\ "ocr" \in run.degraded /\ ~OcrCopyFailed) =>
              ~files[OutOcr].ocred
        /\ (run.pc = "exit" /\ run.escaped = "" /\ OutOcr \notin DOMAIN files) =>
              ~Chosen("ocr")
        /\ OutOcr \in DOMAIN files => Chosen("ocr")

C17_Witness ==
    /\ run.frontend = "cli" /\ run.pc = "exit" /\ run.escaped = ""
    /\ "ocr" \in run.degraded
    /\ SrcDoc.text = ""
    /\ files[OutOcr] = SrcDoc /\ ~files[OutOcr].ocred
    /\ OutText \notin DOMAIN files

\* The files extract_images has written when it failed at image `at` of
\* imgs: image j of every j before `at`, and of `at` itself when it was
\* the write that failed.
WrittenBefore(images_dir, imgs, fault) ==
    {ImageFilename(images_dir, imgs[j]) :
        j \in {k \in 1..Len(imgs) :
                  \/ k < fault.at
                  \/ k = fault.at /\ fault.kind = "write"}}

\* C18: a call of extract_images by a front end in which opening the
\* document fails, or reading or writing any one image, returns None and
\* does not raise; the images after the failing one are not extracted, the
\* files written for the images before it stay in the images directory of
\* the scratch directory (none when it was the opening that failed), and
\* the front end copies nothing: there is no images directory in the
\* destination.
C18_NoneOnFirstFailure ==
    (/\ run.frontend # "none" /\ last.op = "images"
     /\ last.env.kind \in {"open", "read", "write"}) =>
        LET images_dir == Scratch \o <<"images">>
            imgs == ImagesOf(SrcDoc)
        IN  /\ last.raised = "" /\ last.none /\ last.log = "error"
            /\ "images" \in run.degraded
            /\ images_dir \in dirs
            /\ FilesIn(files, images_dir) =
                  WrittenBefore(images_dir, imgs, last.env)
            /\ \A j \in 1..Len(imgs) :
                  j > last.env.at =>
                      ImageFilename(images_dir, imgs[j]) \notin DOMAIN files
            /\ \A j \in 1..Len(imgs) :
                  (j < last.env.at /\ last.env.kind # "open") =>
                      files[ImageFilename(images_dir, imgs[j])].data =
                          IF j \in last.env.opt THEN "raw" ELSE "opt"
            /\ OutImages \notin dirs
            /\ \A q \in DOMAIN files : ~IsUnder(q, OutImages)
            /\ run.escaped = ""

C18_Witness ==
    /\ run.frontend = "gui" /\ last.op = "images" /\ run.pc = "tables"
    /\ last.env.kind = "read" /\ last.env.at = 2
    /\ last.none
    /\ Cardinality(FilesIn(files, Scratch \o <<"images">>)) = 1
    /\ TotalImages(SrcDoc) = 2
    /\ OutImages \notin dirs
====
